---------------------------- MODULE Spec2Model ----------------------------
(***************************************************************************)
(* Model of src/app.py: the attendance pipeline of the dashboard script    *)
(* (CSV rows -> enriched rows -> weekday filter -> In/Out classification   *)
(* -> daily sessions -> weekly summaries -> sidebar filter -> rendering)   *)
(* and the elements the script has surfaced on the page at each position.  *)
(*                                                                         *)
(* Representation.  Text cells are sequences of character codes, so that   *)
(* substring tests and sorting are computed.  A timestamp is a record      *)
(* [nat, day, sec]: day = days since 1970-01-01, sec = second of the day,  *)
(* nat = TRUE for pandas' NaT.  A timedelta is [nat, secs].  "Decimal      *)
(* hours" are kept exactly, in units of 1/3600 hour (seconds); the         *)
(* performance score is kept in tenths of a percent (it is rounded to one  *)
(* decimal); Gap_% is kept as the fraction <<numerator, denominator>>.     *)
(***************************************************************************)
EXTENDS Integers, Sequences, FiniteSets

VARIABLES pc, uploaded_file, df, daily, weekly, selected_user, selected_week,
          performance_threshold, filtered, search_term, ui,
          earlier_run   \* observer: input and output of an earlier run

vars == <<pc, uploaded_file, df, daily, weekly, selected_user, selected_week,
          performance_threshold, filtered, search_term, ui, earlier_run>>

----------------------------------------------------------------------------
(* Program constants *)

TARGET_WEEKLY_HOURS == 40

WORKING_DAYS == {"Monday", "Tuesday", "Wednesday", "Thursday", "Friday"}

SecondsPerHour == 3600

(* TARGET_WEEKLY_HOURS in the unit of the decimal-hours columns *)
TargetUnits == TARGET_WEEKLY_HOURS * SecondsPerHour

RequiredColumns == {"Date/time", "User", "Where"}

----------------------------------------------------------------------------
(* Text: sequences of character codes *)

TokenIn == <<73, 110>>                                  \* "In"
TokenOut == <<79, 117, 116>>                            \* "Out"

JohnDoe == <<74, 111, 104, 110, 32, 68, 111, 101>>      \* "John Doe"
User101 == <<49, 48, 49>>                               \* "101"

OfficeIn == <<79, 102, 102, 105, 99, 101, 32, 73, 110>>         \* "Office In"
OfficeOut == <<79, 102, 102, 105, 99, 101, 32, 79, 117, 116>>   \* "Office Out"
MainDoor == <<77, 97, 105, 110, 32, 68, 111, 111, 114>>         \* "Main Door"
InOutGate == <<73, 110, 47, 79, 117, 116>>                      \* "In/Out"

(* Python's `token in text` *)
Contains(text, token) ==
    \E i \in 0..(Len(text) - Len(token)) :
        \A j \in 1..Len(token) : text[i + j] = token[j]

(* Python's ordering of str, and of tuples of integers *)
RECURSIVE SeqLess(_, _)
SeqLess(a, b) ==
    IF a = <<>> THEN b # <<>>
    ELSE IF b = <<>> THEN FALSE
    ELSE IF Head(a) # Head(b) THEN Head(a) < Head(b)
    ELSE SeqLess(Tail(a), Tail(b))

(* read_csv's dtype inference for a column: all cells are digit strings *)
IsDigits(text) == text # <<>> /\ \A i \in 1..Len(text) : text[i] \in 48..57

----------------------------------------------------------------------------
(* Calendar *)

NaT == [nat |-> TRUE, day |-> 0, sec |-> 0]

IsLeap(y) == (y % 4 = 0 /\ y % 100 # 0) \/ y % 400 = 0

DaysInMonth(y, m) ==
    IF m = 2 THEN (IF IsLeap(y) THEN 29 ELSE 28)
    ELSE IF m \in {4, 6, 9, 11} THEN 30 ELSE 31

(* days since 1970-01-01 of the civil date y-m-d *)
DaysFromCivil(y, m, d) ==
    LET yy == IF m <= 2 THEN y - 1 ELSE y
        era == yy \div 400
        yoe == yy - era * 400
        mp == IF m > 2 THEN m - 3 ELSE m + 9
        doy == (153 * mp + 2) \div 5 + d - 1
        doe == yoe * 365 + yoe \div 4 - yoe \div 100 + doy
    IN  era * 146097 + doe - 719468

(* the civil date <<y, m, d>> of a day number *)
CivilFromDays(z0) ==
    LET z == z0 + 719468
        era == z \div 146097
        doe == z - era * 146097
        yoe == (doe - doe \div 1460 + doe \div 36524 - doe \div 146096) \div 365
        doy == doe - (365 * yoe + yoe \div 4 - yoe \div 100)
        mp == (5 * doy + 2) \div 153
        d == doy - (153 * mp + 2) \div 5 + 1
        m == IF mp < 10 THEN mp + 3 ELSE mp - 9
        y == yoe + era * 400 + (IF m <= 2 THEN 1 ELSE 0)
    IN  <<y, m, d>>

(* 0 = Monday ... 6 = Sunday; 1970-01-01 was a Thursday *)
Weekday(day) == (day + 3) % 7

DayNames == <<"Monday", "Tuesday", "Wednesday", "Thursday", "Friday",
              "Saturday", "Sunday">>

(* a "Date/time" cell is <<>> (empty) or <<year, month, day, hour, minute,
   second>>; pd.to_datetime raises on a cell that is no date-time *)
Parseable(cell) ==
    \/ cell = <<>>
    \/ /\ Len(cell) = 6
       /\ cell[2] \in 1..12
       /\ cell[3] \in 1..DaysInMonth(cell[1], cell[2])
       /\ cell[4] \in 0..23
       /\ cell[5] \in 0..59
       /\ cell[6] \in 0..59

ToDatetime(cell) ==
    IF cell = <<>> THEN NaT
    ELSE [nat |-> FALSE,
          day |-> DaysFromCivil(cell[1], cell[2], cell[3]),
          sec |-> cell[4] * 3600 + cell[5] * 60 + cell[6]]

(* .dt.date, as the midnight timestamp pd.to_datetime(daily["Date"]) gives *)
DateOf(ts) == IF ts.nat THEN NaT ELSE [nat |-> FALSE, day |-> ts.day, sec |-> 0]

(* .dt.day_name() *)
DayName(ts) == IF ts.nat THEN "NaN" ELSE DayNames[Weekday(ts.day) + 1]

(* the last day of the weekly period "W-MON" holding the day: pandas'
   W-MON weeks END on Monday *)
PeriodEnd(day) == day + ((7 - Weekday(day)) % 7)

(* .dt.to_period("W-MON").astype(str): "start/end" as
   <<y, m, d, y, m, d>>; <<>> for "NaT" *)
WeekKey(ts) ==
    IF ts.nat THEN <<>>
    ELSE CivilFromDays(PeriodEnd(ts.day) - 6) \o CivilFromDays(PeriodEnd(ts.day))

TsLess(a, b) == a.day < b.day \/ (a.day = b.day /\ a.sec < b.sec)

(* Series.min() / Series.max() of a set of timestamps: NaT when empty *)
MinTs(S) == IF S = {} THEN NaT ELSE CHOOSE t \in S : \A u \in S : ~TsLess(u, t)
MaxTs(S) == IF S = {} THEN NaT ELSE CHOOSE t \in S : \A u \in S : ~TsLess(t, u)

----------------------------------------------------------------------------
(* Timedeltas *)

NaTd == [nat |-> TRUE, secs |-> 0]

(* Timestamp - Timestamp: NaT when either side is NaT *)
TdSub(a, b) ==
    IF a.nat \/ b.nat THEN NaTd
    ELSE [nat |-> FALSE, secs |-> (a.day - b.day) * 86400 + (a.sec - b.sec)]

(* .fillna(timedelta(0)) *)
Fillna(td) == IF td.nat THEN [nat |-> FALSE, secs |-> 0] ELSE td

(* the "sum" aggregation of a timedelta column over the rows idx: NaT is
   skipped *)
RECURSIVE TdSum(_, _)
TdSum(rows, idx) ==
    IF idx = {} THEN 0
    ELSE LET i == CHOOSE j \in idx : TRUE
         IN  (IF rows[i].Working_Hours.nat THEN 0 ELSE rows[i].Working_Hours.secs)
             + TdSum(rows, idx \ {i})

(* numpy's round to the nearest integer, ties to even, of num / den; the
   totals of the logs drawn below are never at a tie, where the float
   arithmetic of line 131 could fall on either side *)
RoundHalfEven(num, den) ==
    LET q == num \div den
        r == num % den
    IN  IF 2 * r < den THEN q
        ELSE IF 2 * r > den THEN q + 1
        ELSE IF q % 2 = 0 THEN q ELSE q + 1

----------------------------------------------------------------------------
(* The pipeline stages, lines 80-136 *)

(* lines 83-88: the calendar columns *)
Prepare(rows) ==
    [i \in 1..Len(rows) |->
        LET ts == ToDatetime(rows[i].dt)
        IN  [DateTime |-> ts, User |-> rows[i].user, Where |-> rows[i].where,
             Date |-> DateOf(ts), Week |-> WeekKey(ts), Day |-> DayName(ts)]]

(* line 91 with Saturday among the working days *)
IsWorkingDaySixDays(r) == r.Day \in WORKING_DAYS \cup {"Saturday"}

(* line 91 *)
IsWorkingDay(r) == r.Day \in WORKING_DAYS

FilterWorkingDays(d) == SelectSeq(d, IsWorkingDay)

(* line 95 with "Out" tested before "In" *)
ClassifyIOOutFirst(x) ==
    IF Contains(x, TokenOut) THEN "Out"
    ELSE IF Contains(x, TokenIn) THEN "In"
    ELSE "None"

(* line 95 *)
ClassifyIO(x) ==
    IF Contains(x, TokenIn) THEN "In"
    ELSE IF Contains(x, TokenOut) THEN "Out"
    ELSE "None"

(* lines 94-96 *)
IdentifyIO(d) ==
    [i \in 1..Len(d) |->
        [DateTime |-> d[i].DateTime, User |-> d[i].User, Where |-> d[i].Where,
         Date |-> d[i].Date, Week |-> d[i].Week, Day |-> d[i].Day,
         IO |-> ClassifyIO(d[i].Where)]]

(* groupby sorts its keys; a key is <<User, k>>, k a tuple of integers *)
KeyLess(a, b) == SeqLess(a[1], b[1]) \/ (a[1] = b[1] /\ SeqLess(a[2], b[2]))

RECURSIVE SortKeys(_)
SortKeys(S) ==
    IF S = {} THEN <<>>
    ELSE LET m == CHOOSE x \in S : \A y \in S \ {x} : KeyLess(x, y)
         IN  <<m>> \o SortKeys(S \ {m})

(* line 102 without the selection of the "In" rows *)
InTimeOfAllEvents(d, grp) == MinTs({d[i].DateTime : i \in grp})

(* line 102 *)
InTime(d, grp) == MinTs({d[i].DateTime : i \in {j \in grp : d[j].IO = "In"}})

(* line 103 *)
OutTime(d, grp) == MaxTs({d[i].DateTime : i \in {j \in grp : d[j].IO = "Out"}})

(* line 108 without the fillna of line 109 *)
WorkingHoursNoFill(in, out) == TdSub(out, in)

(* lines 108-109 *)
WorkingHours(in, out) == Fillna(TdSub(out, in))

(* lines 99-112 *)
DailyAgg(d) ==
    LET keys == SortKeys({<<d[i].User, <<d[i].Date.day>>>> : i \in 1..Len(d)})
    IN  [n \in 1..Len(keys) |->
            LET k == keys[n]
                grp == {i \in 1..Len(d) :
                            d[i].User = k[1] /\ d[i].Date.day = k[2][1]}
                date == [nat |-> FALSE, day |-> k[2][1], sec |-> 0]
                in == InTime(d, grp)
                out == OutTime(d, grp)
                wh == WorkingHours(in, out)
            IN  [User |-> k[1], Date |-> date, In_Time |-> in, Out_Time |-> out,
                 Working_Hours |-> wh, Working_Hours_decimal |-> wh.secs,
                 Week |-> WeekKey(date)]]

(* line 119: "count" of the Date column over the rows of a group *)
DaysWorked(dl, grp) == Cardinality({i \in grp : ~dl[i].Date.nat})

(* line 126 *)
GapHours(actual) == TargetUnits - actual

(* line 127 *)
GapPct(gap) == <<gap * 100, TargetUnits>>

(* lines 128-130 *)
ComplianceOf(actual) == IF actual >= TargetUnits THEN "Met" ELSE "Below Target"

(* line 131, in tenths of a percent *)
PerformanceScore(actual) == RoundHalfEven(actual * 100 * 10, TargetUnits)

(* line 116 grouping by the user alone *)
WeeklyKeyUserOnly(s) == <<s.User, <<>>>>

(* the grouping key of line 116 *)
WeeklyKey(s) == <<s.User, s.Week>>

(* lines 115-131 *)
WeeklyAgg(dl) ==
    LET keys == SortKeys({WeeklyKey(dl[i]) : i \in 1..Len(dl)})
    IN  [n \in 1..Len(keys) |->
            LET k == keys[n]
                grp == {i \in 1..Len(dl) : WeeklyKey(dl[i]) = k}
                actual == TdSum(dl, grp)
            IN  [User |-> k[1], Week |-> k[2],
                 Actual_Hours |-> [nat |-> FALSE, secs |-> actual],
                 Days_Worked |-> DaysWorked(dl, grp),
                 Actual_Hours_decimal |-> actual,
                 Target_Hours |-> TARGET_WEEKLY_HOURS,
                 Gap_Hours |-> GapHours(actual),
                 Gap_pct |-> GapPct(GapHours(actual)),
                 Compliance |-> ComplianceOf(actual),
                 Performance_Score |-> PerformanceScore(actual)]]

(* lines 193-197 with a strict comparison on line 196 *)
SelectedStrict(w, users, weeks, threshold) ==
    /\ w.User \in users
    /\ w.Week \in weeks
    /\ w.Performance_Score > threshold * 10

(* lines 193-197 *)
Selected(w, users, weeks, threshold) ==
    /\ w.User \in users
    /\ w.Week \in weeks
    /\ w.Performance_Score >= threshold * 10

ApplyFilter(wk, users, weeks, threshold) ==
    LET Keep(w) == Selected(w, users, weeks, threshold)
    IN  SelectSeq(wk, Keep)

(* the dtype read_csv gives the User column, line 80 *)
UserColumnIsNumeric(rows) ==
    Len(rows) > 0 /\ \A i \in 1..Len(rows) : IsDigits(rows[i].user)

----------------------------------------------------------------------------
(* The uploaded files the model draws from *)

MaxRows == 2
NDays == 2

(* "101" is the only numeric identifier, so the order of the users is the
   same whether read_csv gives the User column the int64 or the object dtype *)
Users == {JohnDoe, User101}
Labels == {OfficeIn, OfficeOut, MainDoor, InOutGate}

Friday == <<2023, 12, 29>>
Saturday == <<2023, 12, 30>>
Monday == <<2024, 1, 1>>
Tuesday == <<2024, 1, 2>>

NineAm == <<9, 0, 0>>
SixPm == <<18, 0, 0>>

BadCell == <<2024, 13, 1, 9, 0, 0>>
EmptyCell == <<>>

Cells == {Friday \o NineAm, Saturday \o NineAm, Monday \o NineAm, Monday \o SixPm}

Rows == [dt : Cells, user : Users, where : Labels]

(* every log of at most MaxRows rows *)
SmallLogs == UNION {[1..n -> Rows] : n \in 0..MaxRows}

(* rows whose "Date/time" cell is no date-time, or is empty *)
OddRows == [dt : {BadCell, EmptyCell}, user : {JohnDoe}, where : {OfficeIn}]

(* the logs of at most MaxRows rows that start or end with one such row *)
OddLogs ==
    UNION {{<<r>> \o l, l \o <<r>>} :
              l \in {k \in SmallLogs : Len(k) < MaxRows}, r \in OddRows}

(* the civil date n days after the civil date d *)
AddDays(d, n) == CivilFromDays(DaysFromCivil(d[1], d[2], d[3]) + n)

Midnight == <<0, 0, 0>>
OutTimes == {SixPm, <<19, 59, 0>>, <<20, 0, 0>>}

(* one user's log of NDays consecutive days, two rows on each: an "Office
   In" row at midnight, then an "Office Out" or a "Main Door" row *)
FullDayLogs ==
    {[i \in 1..(2 * NDays) |->
        [dt |-> AddDays(start, (i - 1) \div 2)
                    \o (IF i % 2 = 1 THEN Midnight ELSE b[i \div 2]),
         user |-> u,
         where |-> IF i % 2 = 1 THEN OfficeIn ELSE l[i \div 2]]] :
        start \in {Monday, Tuesday}, u \in Users,
        b \in [1..NDays -> OutTimes],
        l \in [1..NDays -> {OfficeOut, MainDoor}]}

(* the events of one user on one day: Entry and Exit events, and events
   of unknown direction before and after them *)
SameDayRows ==
    [dt : {Monday \o Midnight, Monday \o NineAm}, user : {JohnDoe},
     where : {OfficeIn}]
        \cup [dt : {Monday \o SixPm, Monday \o <<19, 59, 0>>}, user : {JohnDoe},
              where : {OfficeOut}]
        \cup [dt : {Monday \o Midnight, Monday \o <<20, 0, 0>>}, user : {JohnDoe},
              where : {MainDoor}]

(* every log of MaxRows + 2 such events, in any order *)
SameDayLogs == [1..(MaxRows + 2) -> SameDayRows]

Files ==
    [cols : {RequiredColumns},
     rows : SmallLogs \cup OddLogs \cup FullDayLogs \cup SameDayLogs]
        \cup [cols : {RequiredColumns \ {c} : c \in RequiredColumns},
              rows : {l \in SmallLogs : Len(l) <= 1}]

NoFile == [cols |-> {}, rows |-> <<>>]

(* no earlier run is remembered *)
NoRun == [ran |-> FALSE, file |-> NoFile, weekly |-> <<>>, others |-> FALSE]

(* the positions of the "Minimum Performance Score" slider the model draws *)
Thresholds == {0, 25, 100}

(* the texts typed in the "Search by User Name" box the model draws *)
SearchTerms == {<<>>, <<111>>}

----------------------------------------------------------------------------
(* The script, one action per step *)

(* lines 557-586: no file is uploaded, the welcome screen is shown *)
Init ==
    /\ pc = "idle"
    /\ uploaded_file = NoFile
    /\ df = <<>>
    /\ daily = <<>>
    /\ weekly = <<>>
    /\ selected_user = {}
    /\ selected_week = {}
    /\ performance_threshold = 0
    /\ filtered = <<>>
    /\ search_term = <<>>
    /\ ui = <<"welcome">>
    /\ earlier_run = NoRun

(* lines 70-76: a file is uploaded and the script runs again from the top *)
Upload ==
    /\ pc = "idle"
    /\ \E f \in Files : uploaded_file' = f
    /\ pc' = "load"
    /\ ui' = <<>>
    /\ UNCHANGED <<earlier_run, df, daily, weekly, selected_user, selected_week,
                   performance_threshold, filtered, search_term>>

(* lines 80-88: KeyError without the "Date/time" column, ValueError on a
   cell that is no date-time *)
LoadAndPrepare ==
    /\ pc = "load"
    /\ IF /\ "Date/time" \in uploaded_file.cols
          /\ \A i \in 1..Len(uploaded_file.rows) :
                Parseable(uploaded_file.rows[i].dt)
       THEN /\ df' = Prepare(uploaded_file.rows)
            /\ pc' = "weekdays"
       ELSE /\ df' = df
            /\ pc' = "except"
    /\ UNCHANGED <<earlier_run, uploaded_file, daily, weekly, selected_user, selected_week,
                   performance_threshold, filtered, search_term, ui>>

(* line 91 *)
KeepWorkingDays ==
    /\ pc = "weekdays"
    /\ df' = FilterWorkingDays(df)
    /\ pc' = "io"
    /\ UNCHANGED <<earlier_run, uploaded_file, daily, weekly, selected_user, selected_week,
                   performance_threshold, filtered, search_term, ui>>

(* lines 94-96: KeyError without the "Where" column *)
TagIO ==
    /\ pc = "io"
    /\ IF "Where" \in uploaded_file.cols
       THEN /\ df' = IdentifyIO(df)
            /\ pc' = "daily"
       ELSE /\ df' = df
            /\ pc' = "except"
    /\ UNCHANGED <<earlier_run, uploaded_file, daily, weekly, selected_user, selected_week,
                   performance_threshold, filtered, search_term, ui>>

(* lines 99-112: KeyError without the "User" column *)
DailyAggregation ==
    /\ pc = "daily"
    /\ IF "User" \in uploaded_file.cols
       THEN /\ daily' = DailyAgg(df)
            /\ pc' = "weekly"
       ELSE /\ daily' = daily
            /\ pc' = "except"
    /\ UNCHANGED <<earlier_run, uploaded_file, df, weekly, selected_user, selected_week,
                   performance_threshold, filtered, search_term, ui>>

(* lines 115-136 *)
WeeklyAggregation ==
    /\ pc = "weekly"
    /\ weekly' = WeeklyAgg(daily)
    /\ pc' = "success"
    /\ UNCHANGED <<earlier_run, uploaded_file, df, daily, selected_user, selected_week,
                   performance_threshold, filtered, search_term, ui>>

(* line 138 *)
ShowSuccess ==
    /\ pc = "success"
    /\ ui' = Append(ui, "success")
    /\ pc' = "sidebar"
    /\ UNCHANGED <<earlier_run, uploaded_file, df, daily, weekly, selected_user,
                   selected_week, performance_threshold, filtered, search_term>>

(* lines 141-197: the sidebar widgets give the selections, then the filter *)
ApplyFilters ==
    /\ pc = "sidebar"
    /\ \E users \in SUBSET {weekly[i].User : i \in 1..Len(weekly)},
          weeks \in SUBSET {weekly[i].Week : i \in 1..Len(weekly)},
          threshold \in Thresholds :
            /\ selected_user' = users
            /\ selected_week' = weeks
            /\ performance_threshold' = threshold
            /\ filtered' = ApplyFilter(weekly, users, weeks, threshold)
    /\ pc' = "main"
    /\ UNCHANGED <<earlier_run, uploaded_file, df, daily, weekly, search_term, ui>>

(* lines 226-275 when the selection is not empty, lines 550-551 when it is *)
ShowMain ==
    /\ pc = "main"
    /\ IF filtered # <<>>
       THEN /\ ui' = Append(ui, "kpi")
            /\ pc' = "tabs"
       ELSE /\ ui' = Append(ui, "warning")
            /\ pc' = "done"
    /\ UNCHANGED <<earlier_run, uploaded_file, df, daily, weekly, selected_user,
                   selected_week, performance_threshold, filtered, search_term>>

(* lines 278-484: the Overview, Weekly Analysis and User Comparison tabs *)
ShowCharts ==
    /\ pc = "tabs"
    /\ ui' = Append(ui, "charts")
    /\ pc' = "details"
    /\ UNCHANGED <<earlier_run, uploaded_file, df, daily, weekly, selected_user,
                   selected_week, performance_threshold, filtered, search_term>>

(* lines 486-548: with a search term, .str on a numeric User column raises
   AttributeError *)
ShowDetails ==
    /\ pc = "details"
    /\ \E term \in SearchTerms :
        /\ search_term' = term
        /\ IF term # <<>> /\ UserColumnIsNumeric(uploaded_file.rows)
           THEN /\ ui' = ui
                /\ pc' = "except"
           ELSE /\ ui' = Append(ui, "table")
                /\ pc' = "done"
    /\ UNCHANGED <<earlier_run, uploaded_file, df, daily, weekly, selected_user,
                   selected_week, performance_threshold, filtered>>

(* lines 553-555 *)
HandleException ==
    /\ pc = "except"
    /\ ui' = ui \o <<"error", "info">>
    /\ pc' = "done"
    /\ UNCHANGED <<earlier_run, uploaded_file, df, daily, weekly, selected_user,
                   selected_week, performance_threshold, filtered, search_term>>

(* the file is removed from the uploader: the script runs again and shows
   the welcome screen, lines 557-586 *)
RemoveFile ==
    /\ pc = "done"
    /\ pc' = "idle"
    /\ uploaded_file' = NoFile
    /\ df' = <<>>
    /\ daily' = <<>>
    /\ weekly' = <<>>
    /\ selected_user' = {}
    /\ selected_week' = {}
    /\ performance_threshold' = 0
    /\ filtered' = <<>>
    /\ search_term' = <<>>
    /\ ui' = <<"welcome">>
    /\ UNCHANGED earlier_run

Next ==
    \/ Upload
    \/ LoadAndPrepare
    \/ KeepWorkingDays
    \/ TagIO
    \/ DailyAggregation
    \/ WeeklyAggregation
    \/ ShowSuccess
    \/ ApplyFilters
    \/ ShowMain
    \/ ShowCharts
    \/ ShowDetails
    \/ HandleException
    \/ RemoveFile

Spec == Init /\ [][Next]_vars

----------------------------------------------------------------------------
(* Helpers of the properties *)

Elements(q) == {q[i] : i \in 1..Len(q)}

(* the aggregation of lines 99-136 has run in this run *)
DailyDone ==
    \/ pc \in {"weekly", "success", "sidebar", "main", "tabs", "details"}
    \/ pc \in {"except", "done"} /\ "success" \in Elements(ui)

WeeklyDone ==
    \/ pc \in {"success", "sidebar", "main", "tabs", "details"}
    \/ pc \in {"except", "done"} /\ "success" \in Elements(ui)

(* the filter of lines 193-197 has run in this run *)
FilterDone ==
    \/ pc \in {"main", "tabs", "details"}
    \/ pc \in {"except", "done"} /\ "success" \in Elements(ui)

(* the sum of the decimal hours of the sessions idx *)
RECURSIVE SumDecimal(_, _)
SumDecimal(dl, idx) ==
    IF idx = {} THEN 0
    ELSE LET i == CHOOSE j \in idx : TRUE
         IN  dl[i].Working_Hours_decimal + SumDecimal(dl, idx \ {i})

(* the sessions of the (user, week) group of the summary w *)
SessionsOf(w) ==
    {j \in 1..Len(daily) : daily[j].User = w.User /\ daily[j].Week = w.Week}

(* the Monday that starts the calendar week of a day *)
MondayOf(day) == day - Weekday(day)

IsWeekendCell(cell) ==
    Len(cell) = 6 /\ Parseable(cell)
        /\ Weekday(DaysFromCivil(cell[1], cell[2], cell[3])) \in {5, 6}

IsNotWeekendRow(r) == ~IsWeekendCell(r.dt)

RemoveWeekendRows(rows) == SelectSeq(rows, IsNotWeekendRow)

----------------------------------------------------------------------------
(* C1: every DailySession has a worked duration >= 0; an Exit earlier than
   the Entry of the same (user, date) group gives zero, not a negative
   duration. *)
C1_DurationNeverNegative ==
    \A i \in 1..Len(daily) : daily[i].Working_Hours.secs >= 0

(* C2: for every WeeklySummary, compliance is Met if and only if
   performance_score >= 100, also for totals just below 40 hours. *)
C2_MetIffScoreAtLeast100 ==
    \A i \in 1..Len(weekly) :
        (weekly[i].Compliance = "Met") <=> (weekly[i].Performance_Score >= 100 * 10)

(* C3: days_worked of a (user, week) group is the number of its sessions
   whose duration is strictly greater than zero. *)
C3_DaysWorkedCountsPositiveDurations ==
    WeeklyDone =>
        \A i \in 1..Len(weekly) :
            weekly[i].Days_Worked =
                Cardinality({j \in SessionsOf(weekly[i]) :
                                daily[j].Working_Hours.secs > 0})

(* C4: the week key is Monday-start: sessions of the same Monday-to-Sunday
   calendar week share the week key, and a Monday and the Friday before it
   never do. *)
C4_WeekKeyIsMondayStart ==
    \A i, j \in 1..Len(daily) :
        /\ MondayOf(daily[i].Date.day) = MondayOf(daily[j].Date.day)
              => daily[i].Week = daily[j].Week
        /\ (Weekday(daily[i].Date.day) = 0
              /\ daily[j].Date.day = daily[i].Date.day - 3)
              => daily[i].Week # daily[j].Week

(* C5: no event on a Saturday or Sunday contributes to any output: no
   DailySession, and no session folded into a WeeklySummary, has a weekend
   date, and the aggregation produces the DailySessions and WeeklySummaries
   of the input without its weekend rows. *)
C5_WeekendRowsNeverContribute ==
    /\ WeeklyDone =>
          /\ \A i \in 1..Len(daily) : Weekday(daily[i].Date.day) \notin {5, 6}
          /\ \A i \in 1..Len(weekly) :
                \A j \in SessionsOf(weekly[i]) :
                    Weekday(daily[j].Date.day) \notin {5, 6}
    /\ pc = "success" =>
          LET without ==
                  DailyAgg(IdentifyIO(FilterWorkingDays(
                      Prepare(RemoveWeekendRows(uploaded_file.rows)))))
          IN  /\ daily = without
              /\ weekly = WeeklyAgg(without)

C5_Witness ==
    /\ pc = "done"
    /\ "table" \in Elements(ui)
    /\ \E i \in 1..Len(uploaded_file.rows) : IsWeekendCell(uploaded_file.rows[i].dt)
    /\ Len(daily) = 1
    /\ Len(weekly) = 1

(* C6: a run that ends in the error outcome has surfaced no success notice,
   KPI metric, chart or table before the error is reported. *)
C6_FailureIsAtomic ==
    "error" \in Elements(ui) =>
        Elements(ui) \cap {"success", "kpi", "charts", "table"} = {}

(* what the page shows when the filter selects none of the summaries the
   pipeline produced *)
NoMatchPage == <<"success", "warning">>

(* C7: the outcome of a run whose rows were all removed before aggregation
   differs from the outcome of a run whose filter selected none of the
   summaries produced, and an empty selection is never the error outcome. *)
C7_EmptyResultDistinguishable ==
    pc = "done" =>
        /\ (WeeklyDone /\ uploaded_file.rows # <<>> /\ daily = <<>>)
              => ui # NoMatchPage
        /\ (WeeklyDone /\ weekly # <<>> /\ filtered = <<>>)
              => (ui = NoMatchPage /\ "error" \notin Elements(ui))

(* the rows of the (user, date) group of the row i of df *)
EventsOf(i) ==
    {j \in 1..Len(df) : df[j].User = df[i].User /\ df[j].Date = df[i].Date}

(* the group of the row i of df has no Entry event or no Exit event *)
EndpointAbsent(i) ==
    \/ \A j \in EventsOf(i) : df[j].IO # "In"
    \/ \A j \in EventsOf(i) : df[j].IO # "Out"

(* the file has the required columns and only cells that parse *)
WellFormed(f) ==
    /\ RequiredColumns \subseteq f.cols
    /\ \A i \in 1..Len(f.rows) : Parseable(f.rows[i].dt)

(* C8: a (user, date) group with no Entry event or no Exit event does not
   fail the run and yields one DailySession of duration exactly zero, which
   adds zero hours to the weekly total. *)
C8_AbsentEndpointGivesZero ==
    /\ (pc = "except" /\ WellFormed(uploaded_file)) => "success" \in Elements(ui)
    /\ DailyDone =>
         \A i \in 1..Len(df) :
            EndpointAbsent(i) =>
                LET s == {n \in 1..Len(daily) :
                             daily[n].User = df[i].User /\ daily[n].Date = df[i].Date}
                IN  /\ Cardinality(s) = 1
                    /\ \A n \in s :
                          /\ daily[n].Working_Hours = [nat |-> FALSE, secs |-> 0]
                          /\ daily[n].Working_Hours_decimal = 0
                          /\ WeeklyDone =>
                               \A w \in 1..Len(weekly) :
                                  n \in SessionsOf(weekly[w]) =>
                                     weekly[w].Actual_Hours_decimal =
                                        SumDecimal(daily, SessionsOf(weekly[w]) \ {n})

C8_Witness ==
    /\ pc = "done"
    /\ "table" \in Elements(ui)
    /\ \E i, k \in 1..Len(df) :
          /\ EndpointAbsent(i)
          /\ df[i].IO = "In"
          /\ ~EndpointAbsent(k)
          /\ df[k].User = df[i].User
          /\ df[k].Week = df[i].Week
    /\ \E w \in 1..Len(weekly) :
          weekly[w].Days_Worked = 2 /\ weekly[w].Actual_Hours_decimal > 0

(* the two rows of the documented example, lines 581-583 *)
ExampleRows ==
    <<[dt |-> <<2024, 1, 1, 9, 0, 0>>, user |-> JohnDoe, where |-> OfficeIn],
      [dt |-> <<2024, 1, 1, 18, 0, 0>>, user |-> JohnDoe, where |-> OfficeOut]>>

(* C9: there is one WeeklySummary per (user, week) group of DailySessions;
   its total_hours is the sum of the group's durations in hours, gap_hours
   is 40 - total_hours and gap_percent is gap_hours / 40 * 100; the example
   of one 09:00 Entry and one 18:00 Exit on Monday 2024-01-01 gives one
   summary with 9.0 hours, gap 31.0, score 22.5, Below Target. *)
C9_WeeklyTotalsAndGaps ==
    WeeklyDone =>
        /\ \A j \in 1..Len(daily) :
              Cardinality({i \in 1..Len(weekly) : j \in SessionsOf(weekly[i])}) = 1
        /\ \A i \in 1..Len(weekly) :
              /\ SessionsOf(weekly[i]) # {}
              /\ weekly[i].Actual_Hours_decimal = SumDecimal(daily, SessionsOf(weekly[i]))
              /\ weekly[i].Gap_Hours = 40 * 3600 - weekly[i].Actual_Hours_decimal
              /\ weekly[i].Gap_pct = <<weekly[i].Gap_Hours * 100, 40 * 3600>>
        /\ uploaded_file.rows = ExampleRows =>
              /\ Len(daily) = 1
              /\ daily[1].Working_Hours_decimal = 9 * 3600
              /\ Len(weekly) = 1
              /\ weekly[1].User = JohnDoe
              /\ weekly[1].Actual_Hours_decimal = 9 * 3600
              /\ weekly[1].Gap_Hours = 31 * 3600
              /\ weekly[1].Performance_Score = 225
              /\ weekly[1].Compliance = "Below Target"

C9_Witness ==
    /\ pc = "done"
    /\ uploaded_file.rows = ExampleRows
    /\ "table" \in Elements(ui)
    /\ Len(weekly) = 1
    /\ weekly[1].Performance_Score = 225

(* C10: the filtered sequence is exactly the WeeklySummary records whose
   user and week are selected and whose performance_score is >= the
   threshold, in their order and with every field as in the unfiltered
   record, and the unfiltered sequence is what the aggregation produced. *)
C10_FilterIsPureSelection ==
    FilterDone =>
        /\ weekly = WeeklyAgg(daily)
        /\ \E pos \in [1..Len(filtered) -> 1..Len(weekly)] :
              /\ \A a \in 1..Len(filtered) : filtered[a] = weekly[pos[a]]
              /\ \A a, b \in 1..Len(filtered) : a < b => pos[a] < pos[b]
              /\ \A j \in 1..Len(weekly) :
                    (\E a \in 1..Len(filtered) : pos[a] = j)
                        <=> /\ weekly[j].User \in selected_user
                            /\ weekly[j].Week \in selected_week
                            /\ weekly[j].Performance_Score >= performance_threshold * 10

C10_Witness ==
    /\ pc = "done"
    /\ Len(weekly) = 2
    /\ Len(filtered) = 1
    /\ performance_threshold = 25
    /\ filtered[1] = weekly[2]
    /\ weekly[1].User \in selected_user
    /\ weekly[1].Week \in selected_week

----------------------------------------------------------------------------
(* Successive runs.  The script is run again from the top whenever the
   uploader changes; SpecRuns is Spec with an observer that remembers the
   file and the weekly summary of a finished run of the example log, keeps
   them while other files are processed, and notes in "others" that a run
   of another file has finished since. *)

(* what the observer holds after the run that finishes *)
Observe ==
    IF uploaded_file.rows = ExampleRows /\ WeeklyDone
    THEN [ran |-> TRUE, file |-> uploaded_file, weekly |-> weekly,
          others |-> FALSE]
    ELSE [earlier_run EXCEPT !.others = earlier_run.ran]

(* a rerun that finds the previous run's frames still bound *)
RemoveFileKeepingFrames ==
    /\ pc = "done"
    /\ pc' = "idle"
    /\ uploaded_file' = NoFile
    /\ selected_user' = {}
    /\ selected_week' = {}
    /\ performance_threshold' = 0
    /\ search_term' = <<>>
    /\ ui' = <<"welcome">>
    /\ earlier_run' = Observe
    /\ UNCHANGED <<df, daily, weekly, filtered>>

(* RemoveFile, observed: the file is removed from the uploader, the script
   runs again from the top, binds none of df, daily_summary, weekly_summary
   and filtered_summary, and shows the welcome screen, lines 76 and 557-586 *)
RemoveFileObserved ==
    /\ pc = "done"
    /\ pc' = "idle"
    /\ uploaded_file' = NoFile
    /\ df' = <<>>
    /\ daily' = <<>>
    /\ weekly' = <<>>
    /\ selected_user' = {}
    /\ selected_week' = {}
    /\ performance_threshold' = 0
    /\ filtered' = <<>>
    /\ search_term' = <<>>
    /\ ui' = <<"welcome">>
    /\ earlier_run' = Observe

NextRuns ==
    \/ Upload
    \/ LoadAndPrepare
    \/ KeepWorkingDays
    \/ TagIO
    \/ DailyAggregation
    \/ WeeklyAggregation
    \/ ShowSuccess
    \/ ApplyFilters
    \/ ShowMain
    \/ ShowCharts
    \/ ShowDetails
    \/ HandleException
    \/ RemoveFileObserved

SpecRuns == Init /\ [][NextRuns]_vars

(* C11: a run's WeeklySummary output does not depend on earlier runs: a run
   starts with none of the frames of an earlier run bound, and a run on the
   same file as an earlier run, with any runs on other files in between,
   ends the weekly aggregation with the same weekly summary as that earlier
   run. *)
C11_RunsAreIndependent ==
    /\ pc = "load" =>
          df = <<>> /\ daily = <<>> /\ weekly = <<>> /\ filtered = <<>>
    /\ (WeeklyDone /\ earlier_run.ran /\ earlier_run.file = uploaded_file)
          => weekly = earlier_run.weekly

(* the example file has been run, then another file, and is run again *)
C11_Witness ==
    /\ pc = "done"
    /\ WeeklyDone
    /\ earlier_run.ran
    /\ earlier_run.others
    /\ earlier_run.file = uploaded_file
    /\ uploaded_file.rows = ExampleRows
    /\ Len(weekly) = 1

----------------------------------------------------------------------------
(* the rows of df in the (user, date) group of the session n of daily *)
GroupOf(n) ==
    {j \in 1..Len(df) : df[j].User = daily[n].User /\ df[j].Date = daily[n].Date}

(* the timestamps of the rows of that group that are tagged io *)
TimesOf(n, io) == {df[j].DateTime : j \in {k \in GroupOf(n) : df[k].IO = io}}

(* C12: every (user, date) group has a session; its In_Time is the least
   timestamp of the group's Entry events and its Out_Time the greatest
   timestamp of its Exit events, each NaT when the group has no event of
   that direction; with both present the duration runs from that earliest
   Entry to that latest Exit; events of unknown direction have no part in
   either.  (Stated where the daily aggregation has just run; no later step
   assigns df or daily.) *)
C12_EndpointsAreMinAndMax ==
    pc = "weekly" =>
        /\ \A i \in 1..Len(df) : \E n \in 1..Len(daily) : i \in GroupOf(n)
        /\ \A n \in 1..Len(daily) :
              LET ins == TimesOf(n, "In")
                  outs == TimesOf(n, "Out")
                  s == daily[n]
              IN  /\ GroupOf(n) # {}
                  /\ IF ins = {} THEN s.In_Time = NaT
                     ELSE /\ s.In_Time \in ins
                          /\ \A t \in ins : ~TsLess(t, s.In_Time)
                  /\ IF outs = {} THEN s.Out_Time = NaT
                     ELSE /\ s.Out_Time \in outs
                          /\ \A t \in outs : ~TsLess(s.Out_Time, t)
                  /\ (ins # {} /\ outs # {}) =>
                        /\ ~s.Working_Hours.nat
                        /\ s.Working_Hours.secs =
                              (s.Out_Time.day - s.In_Time.day) * 86400
                                  + (s.Out_Time.sec - s.In_Time.sec)

(* a day with two Entry events, the later one first in the file, an Exit
   event, and an event of unknown direction before the earliest Entry or
   after the Exit *)
C12_Witness ==
    /\ pc = "done"
    /\ \E n \in 1..Len(daily) :
          /\ \E a, b \in GroupOf(n) :
                /\ a < b
                /\ df[a].IO = "In" /\ df[b].IO = "In"
                /\ TsLess(df[b].DateTime, df[a].DateTime)
                /\ daily[n].In_Time = df[b].DateTime
          /\ \E c \in GroupOf(n) :
                df[c].IO = "Out" /\ daily[n].Out_Time = df[c].DateTime
          /\ \E e \in GroupOf(n) :
                /\ df[e].IO = "None"
                /\ \/ TsLess(df[e].DateTime, daily[n].In_Time)
                   \/ TsLess(daily[n].Out_Time, df[e].DateTime)
          /\ daily[n].Working_Hours.secs > 0

----------------------------------------------------------------------------
(* the label holds both "In" and "Out" *)
HasBothTokens(x) == Contains(x, TokenIn) /\ Contains(x, TokenOut)

(* C13: a row is tagged "In" exactly when its label contains "In", tagged
   "Out" exactly when its label contains "Out" and not "In", and untagged
   otherwise; so a label with both tokens is tagged "In", and the Out_Time
   of a session is always the timestamp of a row whose label contains "Out"
   and not "In" (NaT when the group has none).  (Stated where the IO column
   has just been added, and where the daily aggregation has just run.) *)
C13_EntryCheckedBeforeExit ==
    /\ pc = "daily" =>
          \A j \in 1..Len(df) :
              /\ df[j].IO = "In" <=> Contains(df[j].Where, TokenIn)
              /\ df[j].IO = "Out" <=>
                    (~Contains(df[j].Where, TokenIn)
                        /\ Contains(df[j].Where, TokenOut))
              /\ df[j].IO = "None" <=>
                    (~Contains(df[j].Where, TokenIn)
                        /\ ~Contains(df[j].Where, TokenOut))
              /\ HasBothTokens(df[j].Where) => df[j].IO = "In"
    /\ pc = "weekly" =>
          \A n \in 1..Len(daily) :
              LET exits == {df[k].DateTime :
                               k \in {j \in GroupOf(n) :
                                         /\ Contains(df[j].Where, TokenOut)
                                         /\ ~Contains(df[j].Where, TokenIn)}}
              IN  IF exits = {} THEN daily[n].Out_Time = NaT
                  ELSE daily[n].Out_Time \in exits

(* an "In/Out" row later than the "Office Out" row of its day: it is the
   Entry endpoint, and the Exit endpoint is the "Office Out" row *)
C13_Witness ==
    /\ pc = "done"
    /\ \E n \in 1..Len(daily) :
          \E a, b \in GroupOf(n) :
              /\ HasBothTokens(df[a].Where)
              /\ df[a].IO = "In"
              /\ df[b].IO = "Out"
              /\ TsLess(df[b].DateTime, df[a].DateTime)
              /\ daily[n].In_Time = df[a].DateTime
              /\ daily[n].Out_Time = df[b].DateTime

=============================================================================
